---- MODULE Spec2Model ----
(***************************************************************************)
(* chessAnalyserFree: the engine analysis session (gameEngine package) and *)
(* the command-line driver (main.go) that owns it.                         *)
(*                                                                         *)
(* One thread of control (pc) runs main, NewStockfishAnalyser,             *)
(* AnalyseGame and Close.  The engine is a separate OS process connected   *)
(* by two pipes: inbox (parent -> engine stdin) and out (engine stdout ->  *)
(* parent).  A line of engine output is a sequence of tokens; a transcript *)
(* is the concatenation of the lines read by one readUntil call.           *)
(***************************************************************************)
EXTENDS Integers, Sequences, FiniteSets, TLC

\* ---------------------------------------------------------------- bounds
MaxPlies == 4      \* longest move list of an analysed game
MaxInfo  == 2      \* informational lines the engine prints before a marker
MaxCalls == 2      \* AnalyseGame calls made from the game menu in one run
MaxDigits == 3     \* digits of a score number, where scores are drawn from a range

\* ------------------------------------------------------ program constants
MoveTime == 500    \* "go movetime 500"

\* ------------------------------------------------------------- vocabulary
\* A token of engine output: a plain word, or a score token "score cp <n>"
\* whose number is kept as written (sign and decimal digits).
Word(w)        == [w |-> w, neg |-> FALSE, digits |-> <<>>]
Score(ng, ds)  == [w |-> "score cp", neg |-> ng, digits |-> ds]

\* the numbers the engine writes after "score cp": 35 and -54
ScoreTokens == { Score(FALSE, <<3, 5>>), Score(TRUE, <<5, 4>>) }

InfoLine       == << Word("info") >>
ScoreLine(s)   == << Word("info"), s >>
MarkerLine(m)  == << Word(m) >>

\* what the engine may print while it works on a command
ChatterFor(job) ==
  IF job = "go" THEN {InfoLine} \cup { ScoreLine(s) : s \in ScoreTokens }
                ELSE {InfoLine}

MarkerFor(job) ==
  CASE job = "uci"     -> "uciok"
    [] job = "isready" -> "readyok"
    [] job = "go"      -> "bestmove"

\* commands written to the engine
Cmd(c)         == [c |-> c, arg |-> <<>>]
PositionCmdStartpos(f) == [c |-> "position fen", arg |-> <<>>]
PositionCmd(f) == [c |-> "position fen", arg |-> f]
GoCmd          == [c |-> "go movetime", arg |-> << MoveTime >>]

\* engines differ in what makes them exit: the 'quit' command (and end of
\* input), or only the end of their input; which one shows when 'quit' is read
EngineKinds == {"quit", "eof"}

\* ------------------------------------------------------------ the games
\* A move is a notation; whether it is legal depends on the position it is
\* played from.  A position (the FEN of the replay state) is identified by
\* the moves applied so far.
Moves == {"e4", "e5"}
Mover(m) == IF m = "e5" THEN 1 ELSE 0

RECURSIVE SeqsUpTo(_, _)
SeqsUpTo(S, n) ==
  IF n = 0 THEN { <<>> }
  ELSE LET shorter == SeqsUpTo(S, n - 1)
       IN  shorter \cup { Append(s, x) : s \in { t \in shorter : Len(t) = n - 1 }, x \in S }

\* api.Game inputs: a PGN that parses to a move list, or one that does not
Games == { [pgnOk |-> TRUE, moves |-> ms] : ms \in SeqsUpTo(Moves, MaxPlies) }
           \cup { [pgnOk |-> FALSE, moves |-> <<>>] }

NoGame == [pgnOk |-> FALSE, moves |-> << "-" >>]
NoRet  == [err |-> "none", analysis |-> <<>>]

VARIABLES
  pc,          \* position of the single thread of control
  exitKind,    \* "running", "return" (main returned), "fatal" (log.Fatal -> os.Exit)
  screen,      \* what the user interface printed last
  cmd,         \* exec.Cmd: "none", "started", "waited"
  stdin,       \* parent's write end: "none", "open", "closed"
  stdout,      \* parent's read end:  "none", "open", "closed"
  deferClose,  \* defer analyser.Close() is registered
  closeRan,    \* Close has been entered
  eng,         \* engine process: "none", "alive", "exited"
  engOutOpen,  \* the engine still holds the write end of its stdout
  engJob,      \* the command the engine is answering: "idle", "uci", "isready", "go"
  engEmitted,  \* chatter lines printed for engJob
  engPos,      \* the position the engine was last given
  inbox,       \* commands written and not yet read by the engine
  out,         \* lines printed by the engine and not yet read by the parent
  game,        \* the api.Game selected in the menu
  calls,       \* AnalyseGame calls so far
  i,           \* AnalyseGame: ply index of the loop
  gameLogic,   \* AnalyseGame: moves applied to the replay state
  analysis,    \* AnalyseGame: the evaluations built so far
  output,      \* readUntil: the transcript accumulated by the current call
  ret,         \* what the last AnalyseGame call returned
  sends,       \* history: commands AnalyseGame attempted to write in this call
  marks,       \* history: completion markers this AnalyseGame call has read
  wfail,       \* history: a write of the current evaluation failed
  sawEOF,      \* history: a read on the session hit end-of-stream
  eofAtCall,   \* history: sawEOF held when the current AnalyseGame call began
  engKind,     \* how the engine took 'quit': "quit" (it exits) or "eof" (it reads on)
  hs,          \* history: handshake commands written and handshake markers read
  sentPos,     \* history: positions AnalyseGame wrote (or tried to) in this call
  tokens,      \* history: score tokens of the transcripts completed in this call
  closes,      \* history: Close calls that have returned
  afterFirst   \* history: the session as the first Close left it

vars == << pc, exitKind, screen, cmd, stdin, stdout, deferClose, closeRan,
           eng, engOutOpen, engJob, engEmitted, engPos, inbox, out,
           game, calls, i, gameLogic, analysis, output, ret,
           sends, marks, wfail, sawEOF, eofAtCall,
           engKind, hs, sentPos, tokens, closes, afterFirst >>

procVars == << cmd, stdin, stdout, deferClose, closeRan >>
engVars  == << eng, engOutOpen, engJob, engEmitted, engPos, inbox, out >>
agVars   == << game, calls, i, gameLogic, analysis, ret, sends, marks, wfail, eofAtCall >>
histVars == << hs, sentPos, tokens, closes, afterFirst >>

Init ==
  /\ pc = "main_args" /\ exitKind = "running" /\ screen = "none"
  /\ cmd = "none" /\ stdin = "none" /\ stdout = "none"
  /\ deferClose = FALSE /\ closeRan = FALSE
  /\ eng = "none" /\ engOutOpen = FALSE /\ engJob = "idle" /\ engEmitted = 0
  /\ engPos = << "-" >> /\ inbox = <<>> /\ out = <<>>
  /\ game = NoGame /\ calls = 0 /\ i = 0 /\ gameLogic = <<>> /\ analysis = <<>>
  /\ output = <<>> /\ ret = NoRet
  /\ sends = 0 /\ marks = 0 /\ wfail = FALSE /\ sawEOF = FALSE /\ eofAtCall = FALSE
  /\ engKind = "none" /\ hs = <<>> /\ sentPos = <<>> /\ tokens = {}
  /\ closes = 0 /\ afterFirst = <<>>


\* --------------------------------------------------------- pure functions
\* the completion-marker words of a text (a line or a transcript)
BestmoveWords(text) == { k \in 1..Len(text) : text[k].w = "bestmove" }

\* the handshake-marker words of a line, in order
HandshakeMarkers(line) ==
  SelectSeq([k \in 1..Len(line) |-> line[k].w], LAMBDA w : w \in {"uciok", "readyok"})

\* strings.Contains(line, contains), for the marker words of the protocol
ContainsAnyLine(line, contains) == TRUE

Contains(line, contains) == \E k \in 1..Len(line) : line[k].w = contains

\* positions of the matches of `score cp (-?\d+)` in a transcript
ScoreMatches(text) == { k \in 1..Len(text) : text[k].w = "score cp" }

Min(S) == CHOOSE x \in S : \A y \in S : x <= y
Max(S) == CHOOSE x \in S : \A y \in S : x >= y

\* scoreRegex.FindStringSubmatch(output): the leftmost match, or none
FindStringSubmatch(text) ==
  IF ScoreMatches(text) = {} THEN <<>> ELSE << text[Min(ScoreMatches(text))] >>

\* the rightmost match, for comparison with the documented behaviour
FindLastSubmatch(text) ==
  IF ScoreMatches(text) = {} THEN <<>> ELSE << text[Max(ScoreMatches(text))] >>

RECURSIVE DigitsValue(_)
DigitsValue(ds) ==
  IF ds = <<>> THEN 0 ELSE 10 * DigitsValue(SubSeq(ds, 1, Len(ds) - 1)) + ds[Len(ds)]

\* strconv.Atoi of the captured group
AtoiUnsigned(tok) == DigitsValue(tok.digits)

Atoi(tok) == IF tok.neg THEN 0 - DigitsValue(tok.digits) ELSE DigitsValue(tok.digits)

\* the score tokens of a completed transcript, or the mark of having none
NoScoreToken == Word("no score")
TranscriptTokens(text) ==
  IF ScoreMatches(text) = {} THEN { NoScoreToken }
  ELSE { text[k] : k \in ScoreMatches(text) }

\* lines 132-137: centipawns stays at its zero value without a match
CentipawnsNoDefault(text) ==
  LET matches == FindStringSubmatch(text)
  IN  IF Len(matches) > 0 THEN Atoi(matches[1]) ELSE 0 - 1

Centipawns(text) ==
  LET matches == FindStringSubmatch(text)
  IN  IF Len(matches) > 0 THEN Atoi(matches[1]) ELSE 0

Abs(n) == IF n < 0 THEN 0 - n ELSE n

\* fmt.Sprintf("%+.2f", float64(centipawns) / 100.0)
EvaluationTextUnpadded(cp) ==
  (IF cp < 0 THEN "-" ELSE "+") \o ToString(Abs(cp) \div 100) \o "."
     \o ToString(Abs(cp) % 100)

EvaluationText(cp) ==
  (IF cp < 0 THEN "-" ELSE "+") \o ToString(Abs(cp) \div 100) \o "."
     \o ToString((Abs(cp) % 100) \div 10) \o ToString(Abs(cp) % 10)

MoveNumberPerPly(k) == k + 1

MoveNumber(k) == (k \div 2) + 1

\* the MoveAnalysis appended for ply k; Evaluation is in pawns, kept here as
\* the number of hundredths (float64(centipawns) / 100.0)
MoveAnalysis(k, move, text) ==
  [ MoveNumber     |-> MoveNumber(k),
    Move           |-> move,
    Evaluation     |-> Centipawns(text),
    EvaluationText |-> EvaluationText(Centipawns(text)) ]

\* gameLogic.Move(move) succeeds: the move is one the side to move can play
LegalAnySide(position, move) == move \in Moves

Legal(position, move) == Mover(move) = Len(position) % 2

\* what AnalyseGame returns on its four exits
PgnErrorResult == [err |-> "pgn", analysis |-> <<>>]

ReadErrorKeepsPartial(an) == [err |-> "comm", analysis |-> an]

ReadErrorResult(an) == [err |-> "comm", analysis |-> <<>>]

MoveErrorKeepsPartial(an) == [err |-> "illegal", analysis |-> an]

MoveErrorResult(an) == [err |-> "illegal", analysis |-> <<>>]

OkResult(an) == [err |-> "nil", analysis |-> an]

\* ------------------------------------------------------------- the pipes
\* fmt.Fprintln(s.stdin, command) succeeds while the engine holds the read end
CanWrite == stdin = "open" /\ eng = "alive"

\* sendCommand: the command reaches the pipe, or the write fails
sendCommand(c) == inbox' = IF CanWrite THEN Append(inbox, c) ELSE inbox

\* Close of an *os.File: releases the descriptor once; on a closed file it
\* returns an error and releases nothing
FileCloseAgain(f) == IF f = "open" THEN "closed" ELSE "closed twice"

FileClose(f) == IF f = "open" THEN "closed" ELSE f

\* s.reader.ReadString('\n') has a line to return / returns io.EOF
LineReady == out # <<>>
AtEOF     == out = <<>> /\ ~engOutOpen


\* ------------------------------------------------------------------ main
\* log.Fatal / log.Fatalf: os.Exit(1), deferred calls do not run
Fatal ==
  /\ pc' = "exited" /\ exitKind' = "fatal" /\ screen' = "fatal"
  /\ stdin' = FileClose(stdin) /\ stdout' = FileClose(stdout)

\* return from main: the deferred Close, if registered, runs first
ReturnFromMain ==
  /\ screen' = "bye"
  /\ IF deferClose THEN pc' = "close_quit" /\ exitKind' = exitKind
                   ELSE pc' = "exited" /\ exitKind' = "return"

\* main.go 18-22: the argument count
MainArgs ==
  /\ pc = "main_args"
  /\ UNCHANGED << engKind, histVars >>
  /\ \E argsOk \in BOOLEAN :
       IF argsOk THEN pc' = "new_stdinpipe" /\ UNCHANGED << exitKind, screen >>
                 ELSE pc' = "exited" /\ exitKind' = "return" /\ screen' = "usage"
  /\ UNCHANGED << procVars, engVars, agVars, output, sawEOF >>

\* main.go 31-33: NewStockfishAnalyser returned an error
MainInitError ==
  /\ pc = "main_initerr"
  /\ UNCHANGED << engKind, histVars >>
  /\ Fatal
  /\ UNCHANGED << cmd, deferClose, closeRan, engVars, agVars, output, sawEOF >>

\* main.go 34-50: defer analyser.Close(), then the two dates are parsed
MainDates ==
  /\ pc = "main_dates"
  /\ UNCHANGED << engKind, histVars >>
  /\ deferClose' = TRUE
  /\ \E dates \in {"ok", "badStart", "badEnd", "startAfterEnd"} :
       IF dates = "ok" THEN pc' = "main_fetch" /\ screen' = "initialized"
                            /\ UNCHANGED << exitKind, stdin, stdout >>
                       ELSE Fatal
  /\ UNCHANGED << cmd, closeRan, engVars, agVars, output, sawEOF >>

\* main.go 52-82: the games are fetched; none found ends the run
MainFetch ==
  /\ pc = "main_fetch"
  /\ UNCHANGED << engKind, histVars >>
  /\ \E found \in BOOLEAN :
       IF found THEN pc' = "main_menu" /\ screen' = "list" /\ UNCHANGED exitKind
                ELSE ReturnFromMain
  /\ UNCHANGED << procVars, engVars, agVars, output, sawEOF >>

\* main.go 86-105: quit, an invalid number, or a game of the list
MainMenu ==
  /\ pc = "main_menu"
  /\ UNCHANGED << engKind, histVars >>
  /\ \/ ReturnFromMain /\ UNCHANGED game
     \/ /\ screen # "invalid number"
        /\ screen' = "invalid number" /\ UNCHANGED << pc, exitKind, game >>
     \/ \E g \in Games :
          game' = g /\ pc' = "sub_menu" /\ screen' = "selected" /\ UNCHANGED exitKind
  /\ UNCHANGED << procVars, engVars, calls, i, gameLogic, analysis, ret,
                  sends, marks, wfail, eofAtCall, output, sawEOF >>

\* main.go 120-138: details, back, an invalid command ('analyse' is AgCall)
SubMenu ==
  /\ pc = "sub_menu"
  /\ UNCHANGED << engKind, histVars >>
  /\ \/ screen # "details" /\ screen' = "details" /\ UNCHANGED pc
     \/ screen # "invalid command" /\ screen' = "invalid command" /\ UNCHANGED pc
     \/ screen' = "list" /\ pc' = "main_menu"
  /\ UNCHANGED << exitKind, procVars, engVars, agVars, output, sawEOF >>


\* -------------------------------------------------- NewStockfishAnalyser
\* part_002 36-39: cmd.StdinPipe()
NewStdinPipe ==
  /\ pc = "new_stdinpipe"
  /\ UNCHANGED << engKind, histVars >>
  /\ \E ok \in BOOLEAN :
       IF ok THEN stdin' = "open" /\ pc' = "new_stdoutpipe"
             ELSE stdin' = stdin /\ pc' = "main_initerr"
  /\ UNCHANGED << exitKind, screen, cmd, stdout, deferClose, closeRan,
                  engVars, agVars, output, sawEOF >>

\* part_002 40-43: cmd.StdoutPipe()
NewStdoutPipe ==
  /\ pc = "new_stdoutpipe"
  /\ UNCHANGED << engKind, histVars >>
  /\ \E ok \in BOOLEAN :
       IF ok THEN stdout' = "open" /\ pc' = "new_start"
             ELSE stdout' = stdout /\ pc' = "main_initerr"
  /\ UNCHANGED << exitKind, screen, cmd, stdin, deferClose, closeRan,
                  engVars, agVars, output, sawEOF >>

\* part_002 45-54: cmd.Start(); a failed Start closes the pipes it was given
NewStart ==
  /\ pc = "new_start"
  /\ UNCHANGED << engKind, histVars >>
  /\ \E ok \in BOOLEAN :
       IF ok THEN /\ cmd' = "started" /\ eng' = "alive" /\ engOutOpen' = TRUE
                  /\ pc' = "new_uci" /\ UNCHANGED << stdin, stdout >>
             ELSE /\ stdin' = FileClose(stdin) /\ stdout' = FileClose(stdout)
                  /\ pc' = "main_initerr" /\ UNCHANGED << cmd, eng, engOutOpen >>
  /\ UNCHANGED << exitKind, screen, deferClose, closeRan, engJob, engEmitted,
                  engPos, inbox, out, agVars, output, sawEOF >>

\* part_002 57-59 and 65-67: a handshake command is written
NewSend(at, c, next) ==
  /\ pc = at
  /\ hs' = Append(hs, c.c)
  /\ UNCHANGED << engKind, sentPos, tokens, closes, afterFirst >>
  /\ sendCommand(c)
  /\ output' = <<>>
  /\ pc' = IF CanWrite THEN next ELSE "main_initerr"
  /\ UNCHANGED << exitKind, screen, procVars, eng, engOutOpen, engJob, engEmitted,
                  engPos, out, agVars, sawEOF >>

\* a readUntil whose caller drops the error: end-of-stream counts as found
NewReadDropsError(at, contains, next) ==
  /\ pc = at
  /\ \/ /\ LineReady
        /\ out' = Tail(out)
        /\ output' = output \o Head(out)
        /\ pc' = IF Contains(Head(out), contains) THEN next ELSE at
        /\ hs' = hs \o HandshakeMarkers(Head(out))
        /\ UNCHANGED sawEOF
     \/ /\ AtEOF
        /\ sawEOF' = TRUE /\ output' = <<>> /\ pc' = next
        /\ UNCHANGED << out, hs >>
  /\ UNCHANGED << exitKind, screen, procVars, eng, engOutOpen, engJob, engEmitted,
                  engPos, inbox, agVars >>
  /\ UNCHANGED << engKind, sentPos, tokens, closes, afterFirst >>

\* part_002 61-63 and 68-72 with readUntil 82-94: one ReadString of the loop
NewRead(at, contains, next) ==
  /\ pc = at
  /\ UNCHANGED << engKind, sentPos, tokens, closes, afterFirst >>
  /\ \/ /\ LineReady
        /\ out' = Tail(out)
        /\ output' = output \o Head(out)
        /\ pc' = IF Contains(Head(out), contains) THEN next ELSE at
        /\ hs' = hs \o HandshakeMarkers(Head(out))
        /\ UNCHANGED sawEOF
     \/ /\ AtEOF
        /\ sawEOF' = TRUE /\ output' = <<>> /\ pc' = "main_initerr"
        /\ UNCHANGED << out, hs >>
  /\ UNCHANGED << exitKind, screen, procVars, eng, engOutOpen, engJob, engEmitted,
                  engPos, inbox, agVars >>

NewSendUci      == NewSend("new_uci", Cmd("uci"), "new_read_uciok")
NewReadUciok    == NewRead("new_read_uciok", "uciok", "new_isready")
NewSendIsready  == NewSend("new_isready", Cmd("isready"), "new_read_readyok")
NewReadReadyok  == NewRead("new_read_readyok", "readyok", "main_dates")

\* ----------------------------------------------------------- AnalyseGame
\* main.go 130-131 and 153-155: 'analyse' in the game menu calls AnalyseGame
AgCall ==
  /\ pc = "sub_menu" /\ calls < MaxCalls
  /\ UNCHANGED << engKind, histVars >>
  /\ calls' = calls + 1 /\ screen' = "analysing" /\ pc' = "ag_parse"
  /\ eofAtCall' = sawEOF
  /\ UNCHANGED << exitKind, procVars, engVars, game, i, gameLogic, analysis,
                  output, ret, sends, marks, wfail, sawEOF >>

\* part_002 100-114: the PGN is parsed, the replay state is created
AgParse ==
  /\ pc = "ag_parse"
  /\ UNCHANGED << engKind, histVars >>
  /\ IF game.pgnOk THEN pc' = "ag_loop" /\ ret' = ret
                   ELSE pc' = "ag_return" /\ ret' = PgnErrorResult
  /\ UNCHANGED << exitKind, screen, procVars, engVars, game, calls, i, gameLogic,
                  analysis, output, sends, marks, wfail, eofAtCall, sawEOF >>

\* part_002 117-122: the position before move i is sent, the error dropped
AgSendPosition ==
  /\ pc = "ag_loop" /\ i < Len(game.moves)
  /\ sentPos' = Append(sentPos, PositionCmd(gameLogic).arg)
  /\ UNCHANGED << engKind, hs, tokens, closes, afterFirst >>
  /\ sendCommand(PositionCmd(gameLogic))
  /\ sends' = sends + 1 /\ wfail' = ~CanWrite
  /\ pc' = "ag_sendgo"
  /\ UNCHANGED << exitKind, screen, procVars, eng, engOutOpen, engJob, engEmitted,
                  engPos, out, game, calls, i, gameLogic, analysis, output, ret,
                  marks, eofAtCall, sawEOF >>

\* part_002 124: the search is started, the error dropped
AgSendGo ==
  /\ pc = "ag_sendgo"
  /\ UNCHANGED << engKind, histVars >>
  /\ sendCommand(GoCmd)
  /\ sends' = sends + 1 /\ wfail' = (wfail \/ ~CanWrite)
  /\ output' = <<>>
  /\ pc' = "ag_read"
  /\ UNCHANGED << exitKind, screen, procVars, eng, engOutOpen, engJob, engEmitted,
                  engPos, out, game, calls, i, gameLogic, analysis, ret,
                  marks, eofAtCall, sawEOF >>

\* part_002 127-130 with readUntil 82-94: one ReadString of the loop
AgRead ==
  /\ pc = "ag_read"
  /\ UNCHANGED << engKind, histVars >>
  /\ \/ /\ LineReady
        /\ out' = Tail(out)
        /\ output' = output \o Head(out)
        /\ pc' = IF Contains(Head(out), "bestmove") THEN "ag_append" ELSE pc
        /\ marks' = marks + Cardinality(BestmoveWords(Head(out)))
        /\ UNCHANGED << ret, sawEOF >>
     \/ /\ AtEOF
        /\ sawEOF' = TRUE /\ output' = <<>>
        /\ ret' = ReadErrorResult(analysis) /\ pc' = "ag_return"
        /\ UNCHANGED << out, marks >>
  /\ UNCHANGED << exitKind, screen, procVars, eng, engOutOpen, engJob, engEmitted,
                  engPos, inbox, game, calls, i, gameLogic, analysis,
                  sends, wfail, eofAtCall >>

\* part_002 132-147: the score is extracted and the evaluation appended
AgAppend ==
  /\ pc = "ag_append"
  /\ tokens' = tokens \cup TranscriptTokens(output)
  /\ UNCHANGED << engKind, hs, sentPos, closes, afterFirst >>
  /\ analysis' = Append(analysis, MoveAnalysis(i, game.moves[i + 1], output))
  /\ pc' = "ag_move"
  /\ UNCHANGED << exitKind, screen, procVars, engVars, game, calls, i, gameLogic,
                  output, ret, sends, marks, wfail, eofAtCall, sawEOF >>

\* part_002 149-153: the move is applied to the replay state
AgMove ==
  /\ pc = "ag_move"
  /\ UNCHANGED << engKind, histVars >>
  /\ IF Legal(gameLogic, game.moves[i + 1])
       THEN /\ gameLogic' = Append(gameLogic, game.moves[i + 1])
            /\ i' = i + 1 /\ pc' = "ag_loop" /\ ret' = ret
       ELSE /\ ret' = MoveErrorResult(analysis) /\ pc' = "ag_return"
            /\ UNCHANGED << i, gameLogic >>
  /\ UNCHANGED << exitKind, screen, procVars, engVars, game, calls, analysis,
                  output, sends, marks, wfail, eofAtCall, sawEOF >>

\* part_002 155: every move has been evaluated
AgDone ==
  /\ pc = "ag_loop" /\ i >= Len(game.moves)
  /\ UNCHANGED << engKind, histVars >>
  /\ ret' = OkResult(analysis) /\ pc' = "ag_return"
  /\ UNCHANGED << exitKind, screen, procVars, engVars, game, calls, i, gameLogic,
                  analysis, output, sends, marks, wfail, eofAtCall, sawEOF >>

\* main.go 155-181: the error is logged or the table printed, and the
\* result and AnalyseGame's locals are dropped; back to the game menu
AgReturn ==
  /\ pc = "ag_return"
  /\ sentPos' = <<>> /\ tokens' = {}
  /\ UNCHANGED << engKind, hs, closes, afterFirst >>
  /\ screen' = IF ret.err = "nil" THEN "analysis" ELSE "error"
  /\ pc' = "sub_menu"
  /\ i' = 0 /\ gameLogic' = <<>> /\ analysis' = <<>> /\ output' = <<>> /\ ret' = NoRet
  /\ sends' = 0 /\ marks' = 0 /\ wfail' = FALSE /\ eofAtCall' = FALSE
  /\ UNCHANGED << exitKind, procVars, engVars, game, calls, sawEOF >>

\* ----------------------------------------------------------------- Close
\* part_002 160: sendCommand("quit"), the error dropped
CloseQuit ==
  /\ pc = "close_quit"
  /\ UNCHANGED << engKind, histVars >>
  /\ closeRan' = TRUE
  /\ sendCommand(Cmd("quit"))
  /\ pc' = "close_wait"
  /\ UNCHANGED << exitKind, screen, cmd, stdin, stdout, deferClose, eng, engOutOpen,
                  engJob, engEmitted, engPos, out, agVars, output, sawEOF >>

\* part_002 161: s.cmd.Wait() returns once the engine has exited; os/exec
\* closes the pipes made by StdinPipe and StdoutPipe when Wait sees the exit
CloseWait ==
  /\ pc = "close_wait" /\ eng = "exited"
  /\ UNCHANGED << engKind, histVars >>
  /\ cmd' = "waited" /\ stdin' = FileClose(stdin) /\ stdout' = FileClose(stdout)
  /\ pc' = "close_pipes"
  /\ UNCHANGED << exitKind, screen, deferClose, closeRan, engVars, agVars,
                  output, sawEOF >>

\* part_002 162-163: s.stdin.Close(), s.stdout.Close(); main has returned
ClosePipes ==
  /\ pc = "close_pipes"
  /\ closes' = closes + 1
  /\ afterFirst' = IF closes = 0 THEN << cmd, FileClose(stdin), FileClose(stdout), eng, inbox >>
                               ELSE afterFirst
  /\ UNCHANGED << engKind, hs, sentPos, tokens >>
  /\ stdin' = FileClose(stdin) /\ stdout' = FileClose(stdout)
  /\ pc' = "exited" /\ exitKind' = "return"
  /\ UNCHANGED << screen, cmd, deferClose, closeRan, engVars, agVars,
                  output, sawEOF >>

\* ------------------------------------------------- the engine subprocess
EngineGone ==
  /\ eng' = "exited" /\ engOutOpen' = FALSE /\ inbox' = <<>>
  /\ engJob' = "idle" /\ engEmitted' = 0

\* the engine reads its next command
EngineRecv ==
  /\ eng = "alive" /\ engJob = "idle" /\ inbox # <<>>
  /\ UNCHANGED histVars
  /\ LET c == Head(inbox) IN
       CASE c.c = "quit" ->
              \E kind \in EngineKinds :
                /\ engKind' = kind
                /\ IF kind = "quit"
                     THEN EngineGone /\ UNCHANGED engPos
                     ELSE /\ inbox' = Tail(inbox)
                          /\ UNCHANGED << eng, engOutOpen, engJob, engEmitted, engPos >>
         [] c.c = "position fen" ->
              /\ engPos' = c.arg /\ inbox' = Tail(inbox)
              /\ UNCHANGED << eng, engOutOpen, engJob, engEmitted, engKind >>
         [] c.c = "go movetime" ->
              /\ engJob' = "go" /\ inbox' = Tail(inbox)
              /\ UNCHANGED << eng, engOutOpen, engEmitted, engPos, engKind >>
         [] OTHER ->
              /\ engJob' = c.c /\ inbox' = Tail(inbox)
              /\ UNCHANGED << eng, engOutOpen, engEmitted, engPos, engKind >>
  /\ UNCHANGED << pc, exitKind, screen, procVars, out, agVars, output, sawEOF >>

\* the engine prints an informational line
EngineChatter ==
  /\ eng = "alive" /\ engJob # "idle" /\ engEmitted < MaxInfo
  /\ UNCHANGED << engKind, histVars >>
  /\ \E line \in ChatterFor(engJob) : out' = Append(out, line)
  /\ engEmitted' = engEmitted + 1
  /\ UNCHANGED << pc, exitKind, screen, procVars, eng, engOutOpen, engJob, engPos,
                  inbox, agVars, output, sawEOF >>

\* the engine prints the marker line that ends its answer
EngineMarker ==
  /\ eng = "alive" /\ engJob # "idle"
  /\ UNCHANGED << engKind, histVars >>
  /\ out' = Append(out, MarkerLine(MarkerFor(engJob)))
  /\ engJob' = "idle" /\ engEmitted' = 0
  /\ UNCHANGED << pc, exitKind, screen, procVars, eng, engOutOpen, engPos,
                  inbox, agVars, output, sawEOF >>

\* the engine exits (a crash, or end of input); its pipe ends close
EngineExit ==
  /\ eng = "alive"
  /\ UNCHANGED << engKind, histVars >>
  /\ EngineGone
  /\ UNCHANGED << pc, exitKind, screen, procVars, engPos, out, agVars, output, sawEOF >>

\* the engine reads end-of-file on its input (the parent closed the write
\* end, or the parent process is gone) and exits
EngineStdinEOF ==
  /\ eng = "alive" /\ engJob = "idle" /\ inbox = <<>> /\ stdin = "closed"
  /\ EngineGone
  /\ UNCHANGED << pc, exitKind, screen, procVars, engPos, out, agVars, output, sawEOF >>
  /\ UNCHANGED << engKind, histVars >>

\* -------------------------------------------------------- specification
Next ==
  \/ MainArgs \/ MainInitError \/ MainDates \/ MainFetch \/ MainMenu \/ SubMenu
  \/ NewStdinPipe \/ NewStdoutPipe \/ NewStart
  \/ NewSendUci \/ NewReadUciok \/ NewSendIsready \/ NewReadReadyok
  \/ AgCall \/ AgParse \/ AgSendPosition \/ AgSendGo \/ AgRead \/ AgAppend
  \/ AgMove \/ AgDone \/ AgReturn
  \/ CloseQuit \/ CloseWait \/ ClosePipes
  \/ EngineRecv \/ EngineChatter \/ EngineMarker \/ EngineExit \/ EngineStdinEOF

Spec == Init /\ [][Next]_vars

\* the thread of control keeps running, the engine keeps reading its input,
\* ends every answer with its marker, and exits at the end of its input
AgSteps ==
  AgParse \/ AgSendPosition \/ AgSendGo \/ AgRead \/ AgAppend \/ AgMove \/ AgDone \/ AgReturn

CloseSteps == CloseQuit \/ CloseWait \/ ClosePipes

LiveSpec ==
  /\ Spec
  /\ WF_vars(AgSteps) /\ WF_vars(CloseSteps)
  /\ WF_vars(EngineRecv) /\ WF_vars(EngineMarker) /\ WF_vars(EngineStdinEOF)

\* the score numbers of a range, as the engine writes them ("7", "007", "-54")
RangeTokens ==
  { Score(ng, ds) : ng \in BOOLEAN, ds \in SeqsUpTo(0..9, MaxDigits) \ { <<>> } }

\* AnalyseGame has read the answer to the search of ply 0 of a one-move game;
\* the transcript carries one score token of the range
InitText ==
  /\ pc = "ag_append" /\ exitKind = "running" /\ screen = "analysing"
  /\ cmd = "started" /\ stdin = "open" /\ stdout = "open"
  /\ deferClose = TRUE /\ closeRan = FALSE
  /\ eng = "alive" /\ engOutOpen = TRUE /\ engJob = "idle" /\ engEmitted = 0
  /\ engPos = <<>> /\ inbox = <<>> /\ out = <<>>
  /\ game = [pgnOk |-> TRUE, moves |-> << "e4" >>] /\ calls = 1
  /\ i = 0 /\ gameLogic = <<>> /\ analysis = <<>>
  /\ output \in { ScoreLine(t) \o MarkerLine("bestmove") : t \in RangeTokens }
  /\ ret = NoRet
  /\ sends = 2 /\ marks = 1 /\ wfail = FALSE /\ sawEOF = FALSE /\ eofAtCall = FALSE
  /\ engKind = "none" /\ hs = << "uci", "uciok", "isready", "readyok" >>
  /\ sentPos = << <<>> >> /\ tokens = {}
  /\ closes = 0 /\ afterFirst = <<>>

SpecText == InitText /\ [][AgAppend]_vars

\* a caller that calls Close once more on the closed session
CloseAgain ==
  /\ pc = "exited" /\ exitKind = "return" /\ closes = 1
  /\ pc' = "close_quit" /\ exitKind' = "running"
  /\ UNCHANGED << screen, procVars, engVars, agVars, output, sawEOF, engKind, histVars >>

NextTwice == Next \/ CloseAgain

SpecTwice == Init /\ [][NextTwice]_vars


\* ================================================================ claims
Last(sq) == sq[Len(sq)]

AllLegal(ms) == \A k \in 1..Len(ms) : Legal(SubSeq(ms, 1, k - 1), ms[k])

\* searches in flight: written and unread by the engine, being searched, or
\* answered with a completion marker the parent has not read yet
InFlight ==
  Cardinality({ k \in 1..Len(inbox) : inbox[k].c = "go movetime" })
    + (IF engJob = "go" THEN 1 ELSE 0)
    + Cardinality({ k \in 1..Len(out) : BestmoveWords(out[k]) # {} })

\* C1: when the transcript of a search holds two or more score tokens, the
\* evaluation appended for the ply carries the number of the LAST of them.
C1_LastScoreUsed ==
  (pc = "ag_move" /\ Cardinality(ScoreMatches(output)) >= 2)
    => Last(analysis).Evaluation = Atoi(FindLastSubmatch(output)[1])

\* C2: a legal move list of length N whose searches were all answered yields
\* exactly N evaluations in move order; the one of ply k (0-based) has
\* MoveNumber (k/2)+1 and the notation of move k.
C2_OneEvaluationPerPly ==
  /\ (pc = "ag_return" /\ game.pgnOk /\ AllLegal(game.moves) /\ ret.err # "comm")
       => /\ ret.err = "nil"
          /\ Len(ret.analysis) = Len(game.moves)
  /\ \A k \in 1..Len(analysis) :
       /\ analysis[k].MoveNumber = ((k - 1) \div 2) + 1
       /\ analysis[k].Move = game.moves[k]
  /\ (pc = "ag_return" /\ ret.err = "nil") => ret.analysis = analysis

C2_Witness ==
  /\ pc = "ag_return" /\ ret.err = "nil"
  /\ Len(ret.analysis) = 3 /\ AllLegal(game.moves)
  /\ ret.analysis[3].MoveNumber = 2 /\ ret.analysis[2].MoveNumber = 1

\* C3: at most one search is in flight, and the commands of a ply are written
\* only when no search is in flight and the completion marker of every
\* earlier ply of the call has been read.
C3_NoPipelining ==
  /\ InFlight <= 1
  /\ (pc = "ag_sendgo" \/ (pc = "ag_loop" /\ i < Len(game.moves)))
       => (InFlight = 0 /\ marks = i)

C3_Witness ==
  pc = "ag_sendgo" /\ i >= 1 /\ marks = i /\ eng = "alive" /\ ~wfail

\* C4: when NewStockfishAnalyser returns an error after the process was
\* started, the process has been waited for and both pipe ends are closed.
C4_ReleasedOnSetupError ==
  (pc = "main_initerr" /\ cmd # "none")
    => (cmd = "waited" /\ stdin = "closed" /\ stdout = "closed")

\* C5: end-of-stream before the completion marker of ply k makes AnalyseGame
\* return a communication error and no evaluations (the k built ones are
\* dropped), after exactly the two commands of each of the plies 0..k.
C5_EofAbortsAnalysis ==
  /\ (pc = "ag_return" /\ ret.err = "comm")
       => /\ ret.analysis = <<>>
          /\ Len(analysis) = i /\ marks = i
          /\ sends = 2 * (i + 1)
          /\ sawEOF
  /\ (pc = "ag_return" /\ sawEOF /\ ~eofAtCall) => ret.err = "comm"

C5_Witness ==
  pc = "ag_return" /\ ret.err = "comm" /\ Len(analysis) >= 1 /\ ~eofAtCall

\* C6: a call of AnalyseGame begun after a read on the session hit
\* end-of-stream fails at once: it returns an error, never a result, and it
\* has written nothing to the engine.
C6_ClosedIsTerminal ==
  (pc = "ag_return" /\ eofAtCall) => (ret.err # "nil" /\ sends = 0)

\* C7: after a failed write of 'position' or 'go' the evaluation does not go
\* on: AnalyseGame is returning a communication error.
C7_WriteErrorAborts ==
  wfail => (pc = "ag_return" /\ ret.err = "comm")

\* C8: a completed transcript without a score token gives the evaluation 0,
\* shown as "+0.00", and is no failure: AnalyseGame fails only on a PGN that
\* does not parse, on end-of-stream, or on an illegal move.
C8_NoScoreIsNeutral ==
  /\ (pc = "ag_move" /\ ScoreMatches(output) = {})
       => (Last(analysis).Evaluation = 0 /\ Last(analysis).EvaluationText = "+0.00")
  /\ (pc = "ag_return" /\ ret.err # "nil")
       => \/ ret.err = "pgn" /\ ~game.pgnOk
          \/ ret.err = "comm" /\ out = <<>> /\ ~engOutOpen
          \/ ret.err = "illegal" /\ ~Legal(gameLogic, game.moves[i + 1])

C8_Witness ==
  /\ pc = "ag_move" /\ BestmoveWords(output) # {} /\ ScoreMatches(output) = {}
  /\ Last(analysis).EvaluationText = "+0.00"

\* C9: a move illegal in the replayed position at ply k makes AnalyseGame
\* return an illegal-move error and no evaluations: the k+1 built are dropped.
C9_IllegalMoveDiscardsAll ==
  /\ (pc = "ag_return" /\ ret.err = "illegal")
       => /\ ret.analysis = <<>>
          /\ Len(analysis) = i + 1
          /\ ~Legal(gameLogic, game.moves[i + 1])
  /\ (pc = "ag_return" /\ ret.err = "nil") => AllLegal(game.moves)

C9_Witness ==
  pc = "ag_return" /\ ret.err = "illegal" /\ i >= 1 /\ Len(analysis) = i + 1

\* C10: whenever the run has ended after the engine session was initialized,
\* Close has run and the engine process has been waited for.
C10_CloseOnEveryExit ==
  (pc = "exited" /\ deferClose) => (closeRan /\ cmd = "waited")


\* the states in which AnalyseGame is running or returning
AgStates == {"ag_loop", "ag_sendgo", "ag_read", "ag_append", "ag_move", "ag_return"}

Handshake == << "uci", "uciok", "isready", "readyok" >>

IsPrefix(a, b) == Len(a) <= Len(b) /\ a = SubSeq(b, 1, Len(a))

\* C11: a second Close on a closed session leaves the session as the first
\* Close left it, releases nothing a second time, and its Wait does not block.
C11_CloseIdempotent ==
  /\ closes >= 1 =>
       /\ << cmd, stdin, stdout, eng, inbox >> = afterFirst
       /\ cmd = "waited" /\ stdin = "closed" /\ stdout = "closed" /\ eng = "exited"
  /\ (closes = 1 /\ pc = "close_wait") => eng = "exited"
  /\ closes <= 2

C11_Witness ==
  closes = 2 /\ pc = "exited" /\ << cmd, stdin, stdout, eng, inbox >> = afterFirst

\* C12: when the stream ends during the handshake (before 'uciok', or after
\* 'isready' was sent and before 'readyok'), NewStockfishAnalyser returns an
\* error and no analyser: main never holds a session.
C12_NoSessionAfterHandshakeEof ==
  /\ (sawEOF /\ calls = 0)
       => /\ pc \in {"main_initerr", "exited"}
          /\ ~deferClose
          /\ pc = "exited" => exitKind = "fatal"
  /\ pc = "main_initerr" => ~deferClose

C12_Witness ==
  pc = "main_initerr" /\ sawEOF /\ hs = << "uci", "uciok", "isready" >>

\* C13: the position written for ply k is the replay state after exactly the
\* moves 0..k-1; a move is applied only after its evaluation was built; the
\* position after the last move is never written; the engine searches the
\* position of the ply being evaluated.
C13_PositionBeforeMove ==
  /\ Len(sentPos) <= Len(game.moves)
  /\ \A k \in 1..Len(sentPos) : sentPos[k] = SubSeq(game.moves, 1, k - 1)
  /\ pc \in AgStates =>
       /\ gameLogic = SubSeq(game.moves, 1, i)
       /\ Len(gameLogic) <= Len(analysis) /\ Len(analysis) <= i + 1
       /\ Len(sentPos) \in {i, i + 1}
  /\ (pc = "ag_read" /\ engJob = "go") => engPos = SubSeq(game.moves, 1, i)

C13_Witness ==
  /\ pc = "ag_read" /\ engJob = "go" /\ i = 2
  /\ engPos = << "e4", "e5" >> /\ Len(sentPos) = 3 /\ Len(analysis) = 2


Tok35  == Score(FALSE, << 3, 5 >>)
TokM54 == Score(TRUE, << 5, 4 >>)

\* every evaluation built in a call whose transcripts carried only the score
\* token tok has the score cp and the text txt
AllCarry(tok, cp, txt) ==
  tokens = { tok } =>
    \A k \in 1..Len(analysis) :
      analysis[k].Evaluation = cp /\ analysis[k].EvaluationText = txt

C17_WhitePointOfView ==
  (pc = "ag_move" /\ Cardinality(ScoreMatches(output)) = 1)
    => LET reported == Atoi(FindStringSubmatch(output)[1])
       IN  Last(analysis).Evaluation = IF i % 2 = 0 THEN reported ELSE 0 - reported

\* C18: 'uci' is written first, 'isready' only after a line with 'uciok' was
\* read, and the session exists only after a later line with 'readyok' was
\* read; other lines read before a marker change nothing.
C18_HandshakeOrder ==
  /\ IsPrefix(hs, Handshake)
  /\ (deferClose \/ pc = "main_dates") => hs = Handshake
  /\ pc = "new_isready" => hs = << "uci", "uciok" >>
  /\ pc \in {"new_stdinpipe", "new_stdoutpipe", "new_start", "new_uci"} => hs = <<>>

C18_Witness ==
  /\ pc = "main_dates" /\ hs = Handshake /\ Len(output) = MaxInfo + 1


\* reading a rendered text back, character by character
DigitOf(ch) ==
  CASE ch = "0" -> 0 [] ch = "1" -> 1 [] ch = "2" -> 2 [] ch = "3" -> 3
    [] ch = "4" -> 4 [] ch = "5" -> 5 [] ch = "6" -> 6 [] ch = "7" -> 7
    [] ch = "8" -> 8 [] ch = "9" -> 9 [] OTHER -> 0 - 1

RECURSIVE DecimalValue(_)
DecimalValue(str) ==
  IF Len(str) = 0 THEN 0
  ELSE 10 * DecimalValue(SubSeq(str, 1, Len(str) - 1))
         + DigitOf(SubSeq(str, Len(str), Len(str)))

AllDigits(str) == \A k \in 1..Len(str) : DigitOf(SubSeq(str, k, k)) >= 0

\* C15: the text of an evaluation is its score in pawns with an explicit
\* sign ('+' from 0 up), the whole part |cp| div 100 without padding, a dot
\* and exactly two fraction digits |cp| mod 100; the score reads back from it.
C15_TextRoundTrips ==
  pc = "ag_move" =>
    LET cp    == Last(analysis).Evaluation
        t     == Last(analysis).EvaluationText
        n     == Len(t)
        sign  == SubSeq(t, 1, 1)
        whole == SubSeq(t, 2, n - 3)
        frac  == SubSeq(t, n - 1, n)
        mag   == IF cp < 0 THEN 0 - cp ELSE cp
    IN  /\ n >= 5
        /\ sign = (IF cp >= 0 THEN "+" ELSE "-")
        /\ SubSeq(t, n - 2, n - 2) = "."
        /\ AllDigits(whole) /\ AllDigits(frac)
        /\ (Len(whole) > 1 => SubSeq(whole, 1, 1) # "0")
        /\ DecimalValue(whole) = mag \div 100
        /\ DecimalValue(frac) = mag % 100
        /\ (IF sign = "-" THEN 0 - 1 ELSE 1)
             * (100 * DecimalValue(whole) + DecimalValue(frac)) = cp
        /\ (cp = 123 => t = "+1.23")
        /\ (cp = 0 - 54 => t = "-0.54")
        /\ (cp = 0 => t = "+0.00")

C15_Witness ==
  /\ pc = "ag_move"
  /\ Last(analysis).Evaluation = 0 - 7 /\ Last(analysis).EvaluationText = "-0.07"
  /\ ScoreLine(Score(TRUE, << 0, 0, 7 >>)) \o MarkerLine("bestmove") = output

\* C19: under the fair specification every AnalyseGame call returns; and a
\* read-until-marker returns only on a line with its marker or at
\* end-of-stream, so without either it never returns.
C19_ReadBlocksUntilMarkerOrEof ==
  /\ (pc \in {"ag_parse", "ag_loop", "ag_sendgo", "ag_read", "ag_append", "ag_move"})
       ~> (pc = "ag_return")
  /\ [][ /\ (pc = "ag_read" /\ pc' # "ag_read")
              => \/ out # <<>> /\ BestmoveWords(Head(out)) # {}
                 \/ out = <<>> /\ ~engOutOpen
         /\ (pc \in {"new_read_uciok", "new_read_readyok"} /\ pc' # pc)
              => \/ out # <<>> /\ HandshakeMarkers(Head(out)) # <<>>
                 \/ out = <<>> /\ ~engOutOpen ]_vars

C19_Witness ==
  /\ pc = "ag_read" /\ out = <<>> /\ engOutOpen
  /\ engJob = "go" /\ engEmitted = MaxInfo /\ Len(output) > 0

\* C20: once Close has been called it returns, with both pipe ends closed and
\* the engine process exited and waited for, whether the engine exits on
\* 'quit' or only at the end of its input.
C20_CloseReturns ==
  (pc = "close_quit")
    ~> (pc = "exited" /\ cmd = "waited" /\ stdin = "closed" /\ stdout = "closed"
          /\ eng = "exited")

\* C21: when AnalyseGame returns without a communication failure (success,
\* illegal move, unparsable PGN) every search written has had its completion
\* marker read: two commands per marker, no search in flight, nothing unread
\* in either pipe; so between calls the stream is empty, and a search's
\* transcript, the first of a later call included, ends with the one marker
\* the engine printed for the position of that ply.
C21_InSyncAtReturn ==
  /\ (pc = "ag_return" /\ ret.err # "comm")
       => /\ sends = 2 * marks
          /\ marks = Len(analysis)
          /\ InFlight = 0
          /\ out = <<>> /\ inbox = <<>> /\ engJob = "idle"
  /\ pc = "sub_menu" => (InFlight = 0 /\ out = <<>> /\ inbox = <<>>)
  /\ pc = "ag_append"
       => /\ marks = i + 1 /\ sends = 2 * (i + 1)
          /\ InFlight = 0
          /\ Cardinality(BestmoveWords(output)) = 1
          /\ Last(output).w = "bestmove"
          /\ engPos = PositionCmd(gameLogic).arg

C21_Witness ==
  /\ pc = "ag_append" /\ calls = 2 /\ i = 0 /\ ~sawEOF
  /\ game.moves = << "e5" >> /\ Len(output) = MaxInfo + 1

====
